---- MODULE Spec2Model ----
(***************************************************************************)
(* tvnamer: the Config store (config.py) and the filename parser, the      *)
(* episode descriptor and the renamer (utils.py).                          *)
(*                                                                         *)
(* Python strings are sequences of one-character strings.  Python values   *)
(* of mixed type are tagged records [k |-> <type>, v |-> <payload>].  The  *)
(* outcome of a call is [k |-> "ok", v |-> <returned value>] or            *)
(* [k |-> "raise", v |-> <exception class>].                               *)
(***************************************************************************)
EXTENDS Integers, Sequences, FiniteSets, TLC

\* ------------------------------------------------------------- Python values

None == [k |-> "None"]
StrV(s) == [k |-> "str", v |-> s]
IntV(n) == [k |-> "int", v |-> n]
BoolV(b) == [k |-> "bool", v |-> b]
ListV(l) == [k |-> "list", v |-> l]

Ok(x) == [k |-> "ok", v |-> x]
Raise(e) == [k |-> "raise", v |-> e]

\* A call followed by what is done with the value it returns: an exception it
\* raises propagates.
Try(r, next(_)) == IF r.k = "raise" THEN r ELSE next(r.v)

\* A value under a local name.
Let(value, body(_)) == body(value)

Digits == {"0", "1", "2", "3", "4", "5", "6", "7", "8", "9"}

DigitVal(c) ==
    CASE c = "0" -> 0 [] c = "1" -> 1 [] c = "2" -> 2 [] c = "3" -> 3
      [] c = "4" -> 4 [] c = "5" -> 5 [] c = "6" -> 6 [] c = "7" -> 7
      [] c = "8" -> 8 [] c = "9" -> 9

DigitChar(d) ==
    CASE d = 0 -> "0" [] d = 1 -> "1" [] d = 2 -> "2" [] d = 3 -> "3"
      [] d = 4 -> "4" [] d = 5 -> "5" [] d = 6 -> "6" [] d = 7 -> "7"
      [] d = 8 -> "8" [] d = 9 -> "9"

RECURSIVE DigitsValue(_)
DigitsValue(ds) ==
    IF Len(ds) = 0 THEN 0
    ELSE 10 * DigitsValue(SubSeq(ds, 1, Len(ds) - 1)) + DigitVal(ds[Len(ds)])

RECURSIVE Strip(_)
\* str.strip() as int() applies it: blanks off both ends.
Strip(s) ==
    IF Len(s) > 0 /\ s[1] = " " THEN Strip(Tail(s))
    ELSE IF Len(s) > 0 /\ s[Len(s)] = " " THEN Strip(SubSeq(s, 1, Len(s) - 1))
    ELSE s

\* int(x) of Python 2 (arbitrary precision, so no wrap-around): TypeError for
\* None, ValueError for a string that is not an optionally signed run of digits.
PyInt(x) ==
    IF x.k = "int" THEN Ok(x.v)
    ELSE IF x.k # "str" THEN Raise("TypeError")
    ELSE Let(Strip(x.v), LAMBDA t :
         Let(IF Len(t) > 0 /\ t[1] \in {"+", "-"} THEN Tail(t) ELSE t, LAMBDA ds :
             IF Len(ds) = 0 \/ \E i \in 1..Len(ds) : ds[i] \notin Digits
             THEN Raise("ValueError")
             ELSE Ok(IF t[1] = "-" THEN 0 - DigitsValue(ds) ELSE DigitsValue(ds))))

RECURSIVE NatStr(_)
\* The decimal digits of a natural number.
NatStr(n) ==
    IF n < 10 THEN <<DigitChar(n)>>
    ELSE NatStr(n \div 10) \o <<DigitChar(n % 10)>>

RECURSIVE Zeros(_)
Zeros(n) == IF n <= 0 THEN <<>> ELSE <<"0">> \o Zeros(n - 1)

RECURSIVE Blanks(_)
Blanks(n) == IF n <= 0 THEN <<>> ELSE <<" ">> \o Blanks(n - 1)

\* ------------------------------------------------- regular expressions (re)

\* A pattern source is the sequence of the nodes Python's parser reads from its
\* text under re.VERBOSE: a character class, ".", "^", "$", a repeat {lo,hi}
\* (greedy or lazy; hi = Inf for none) of a node sequence, a group (named
\* when name # ""), or the place where the text cannot be parsed.
Inf == 0 - 1
In(cs) == [k |-> "in", cs |-> cs]
NotIn(cs) == [k |-> "notin", cs |-> cs]
AnyChar == [k |-> "any"]
Bol == [k |-> "bol"]
Eol == [k |-> "eol"]
Rep(lo, hi, greedy, body) ==
    [k |-> "rep", lo |-> lo, hi |-> hi, greedy |-> greedy, body |-> body, at |-> 0]
Grp(name, body) == [k |-> "grp", name |-> name, body |-> body]
Unparsable == [k |-> "error"]
Lit(c) == In({c})
Opt(body) == Rep(0, 1, TRUE, body)
Star(body) == Rep(0, Inf, TRUE, body)
Plus(body) == Rep(1, Inf, TRUE, body)
LazyStar(body) == Rep(0, Inf, FALSE, body)
LazyPlus(body) == Rep(1, Inf, FALSE, body)

NoMatch == [ok |-> FALSE]
Unset == <<0, 0>>

RECURSIVE GroupNameSeq(_)
\* The group names of a pattern, in the order they open, with repetitions.
GroupNameSeq(nodes) ==
    IF Len(nodes) = 0 THEN <<>>
    ELSE LET n == Head(nodes)
             here == CASE n.k = "grp" ->
                            (IF n.name = "" THEN <<>> ELSE <<n.name>>)
                                \o GroupNameSeq(n.body)
                       [] n.k = "rep" -> GroupNameSeq(n.body)
                       [] OTHER -> <<>>
         IN  here \o GroupNameSeq(Tail(nodes))

GroupNames(nodes) ==
    LET names == GroupNameSeq(nodes) IN {names[i] : i \in 1..Len(names)}

RECURSIVE HasUnparsable(_)
HasUnparsable(nodes) ==
    \E i \in 1..Len(nodes) :
        \/ nodes[i].k = "error"
        \/ nodes[i].k \in {"grp", "rep"} /\ HasUnparsable(nodes[i].body)

\* Whether character c is one the single-character node n accepts.
CharOk(n, c) ==
    CASE n.k = "in" -> c \in n.cs
      [] n.k = "notin" -> c \notin n.cs
      [] n.k = "any" -> c # "\n"

IsOneChar(body) == Len(body) = 1 /\ body[1].k \in {"in", "notin", "any"}

\* The longest run of characters n accepts from position pos of s, hi at most.
Run(n, s, pos, hi) ==
    LET avail == Len(s) - pos + 1
        cap == IF hi = Inf \/ hi > avail THEN avail ELSE hi
    IN  CHOOSE c \in 0..cap :
            /\ \A j \in 0..(c - 1) : CharOk(n, s[pos + j])
            /\ c = cap \/ ~CharOk(n, s[pos + c])

RECURSIVE SreMatch(_, _, _, _)
\* The backtracking matcher: the first way, in the engine's order of trial, to
\* match the nodes of cont one after the other from position pos of s.  A
\* repeat of a single-character node tries its run lengths longest first when
\* greedy and shortest first when lazy; any other repeat goes round its body
\* once more (unless the last round consumed nothing) or goes on.
SreMatch(cont, s, pos, caps) ==
    IF Len(cont) = 0 THEN [ok |-> TRUE, caps |-> caps, end |-> pos]
    ELSE LET n == Head(cont)
             rest == Tail(cont)
         IN CASE n.k = "in" ->
                   IF pos <= Len(s) /\ s[pos] \in n.cs
                   THEN SreMatch(rest, s, pos + 1, caps) ELSE NoMatch
              [] n.k = "notin" ->
                   IF pos <= Len(s) /\ s[pos] \notin n.cs
                   THEN SreMatch(rest, s, pos + 1, caps) ELSE NoMatch
              [] n.k = "any" ->
                   IF pos <= Len(s) /\ s[pos] # "\n"
                   THEN SreMatch(rest, s, pos + 1, caps) ELSE NoMatch
              [] n.k = "bol" ->
                   IF pos = 1 THEN SreMatch(rest, s, pos, caps) ELSE NoMatch
              [] n.k = "eol" ->
                   IF pos = Len(s) + 1 \/ (pos = Len(s) /\ s[pos] = "\n")
                   THEN SreMatch(rest, s, pos, caps) ELSE NoMatch
              [] n.k = "grp" ->
                   SreMatch(n.body \o <<[k |-> "close", name |-> n.name, from |-> pos]>>
                                \o rest, s, pos, caps)
              [] n.k = "close" ->
                   SreMatch(rest, s, pos,
                            IF n.name = "" THEN caps
                            ELSE [caps EXCEPT ![n.name] = <<n.from, pos>>])
              [] n.k = "rep" /\ IsOneChar(n.body) ->
                   LET run == Run(n.body[1], s, pos, n.hi)
                       tries == [c \in n.lo..run |-> SreMatch(rest, s, pos + c, caps)]
                       good == {c \in n.lo..run : tries[c].ok}
                   IN  IF good = {} THEN NoMatch
                       ELSE IF n.greedy
                       THEN tries[CHOOSE c \in good : \A d \in good : d <= c]
                       ELSE tries[CHOOSE c \in good : \A d \in good : d >= c]
              [] n.k = "rep" /\ ~IsOneChar(n.body) ->
                   LET less == IF n.hi = Inf THEN Inf ELSE n.hi - 1 IN
                   IF n.lo > 0
                   THEN SreMatch(n.body
                                   \o <<[n EXCEPT !.lo = n.lo - 1, !.hi = less, !.at = 0]>>
                                   \o rest, s, pos, caps)
                   ELSE IF n.hi = 0 \/ n.at = pos
                   THEN SreMatch(rest, s, pos, caps)
                   ELSE LET more == SreMatch(n.body
                                               \o <<[n EXCEPT !.hi = less, !.at = pos]>>
                                               \o rest, s, pos, caps)
                        IN  IF n.greedy
                            THEN IF more.ok THEN more
                                 ELSE SreMatch(rest, s, pos, caps)
                            ELSE LET stop == SreMatch(rest, s, pos, caps)
                                 IN  IF stop.ok THEN stop ELSE more

\* ------------------------------------------------------- the pattern sources

\* The nine default episode_patterns, node for node as re.VERBOSE reads them
\* (blanks and # comments outside a class dropped; the string literal's "\\/"
\* is the regular expression's "\/", so [^\\/] excludes "/" alone).
\* [group] Show - 01-02 [Etc]
DefaultPattern1 ==
    <<Bol,
      Lit("["),
      LazyPlus(<<AnyChar>>),
      Lit("]"),
      Opt(<<Lit(" ")>>),
      Grp("showname", <<LazyStar(<<AnyChar>>)>>),
      Opt(<<Lit(" ")>>),
      In({"-", "_"}),
      Opt(<<Lit(" ")>>),
      Grp("episodenumberstart", <<Plus(<<In(Digits)>>)>>),
      Star(<<Grp("", <<In({"-", "_"}), Plus(<<In(Digits)>>)>>)>>),
      In({"-", "_"}),
      Grp("episodenumberend", <<Plus(<<In(Digits)>>)>>),
      Star(<<NotIn({"/"})>>),
      Eol>>

\* [group] Show - 01 [Etc]
DefaultPattern2 ==
    <<Bol,
      Lit("["),
      LazyPlus(<<AnyChar>>),
      Lit("]"),
      Opt(<<Lit(" ")>>),
      Grp("showname", <<Star(<<AnyChar>>)>>),
      Opt(<<Lit(" ")>>),
      In({"-", "_"}),
      Opt(<<Lit(" ")>>),
      Grp("episodenumber", <<Plus(<<In(Digits)>>)>>),
      Star(<<NotIn({"/"})>>),
      Eol>>

\* foo.s01e23e24*
DefaultPattern3 ==
    <<Bol,
      Grp("showname", <<LazyPlus(<<AnyChar>>)>>),
      In({" ", ".", "_", "-"}),
      In({"S", "s"}),
      Grp("seasonnumber", <<Plus(<<In(Digits)>>)>>),
      Opt(<<In({".", "-", " "})>>),
      In({"E", "e"}),
      Grp("episodenumberstart", <<Plus(<<In(Digits)>>)>>),
      Star(<<Grp("", <<Opt(<<In({".", "-", " "})>>), In({"E", "e"}), Plus(<<In(Digits)>>)>>)>>),
      Opt(<<In({".", "-", " "})>>),
      In({"E", "e"}),
      Grp("episodenumberend", <<Plus(<<In(Digits)>>)>>),
      Star(<<NotIn({"/"})>>),
      Eol>>

\* foo.1x09-11*
DefaultPattern4 ==
    <<Bol,
      Grp("showname", <<LazyPlus(<<AnyChar>>)>>),
      In({" ", ".", "_", "-"}),
      Opt(<<Lit("[")>>),
      Grp("seasonnumber", <<Plus(<<In(Digits)>>)>>),
      Lit("x"),
      Grp("episodenumberstart", <<Plus(<<In(Digits)>>)>>),
      Lit("-"),
      Grp("episodenumberend", <<Plus(<<In(Digits)>>)>>),
      Lit("]"),
      Star(<<NotIn({"/"})>>),
      Eol>>

\* foo_[s01]_[e01]
DefaultPattern5 ==
    <<Bol,
      Grp("showname", <<LazyPlus(<<AnyChar>>)>>),
      In({" ", ".", "_", "-"}),
      Lit("["),
      In({"S", "s"}),
      Grp("seasonnumber", <<LazyPlus(<<In(Digits)>>)>>),
      Lit("]"),
      Lit("_"),
      Lit("["),
      In({"E", "e"}),
      Grp("episodenumber", <<LazyPlus(<<In(Digits)>>)>>),
      Opt(<<Lit("]")>>),
      Star(<<NotIn({"/"})>>),
      Eol>>

\* foo.1x09*
DefaultPattern6 ==
    <<Bol,
      Grp("showname", <<LazyPlus(<<AnyChar>>)>>),
      In({" ", ".", "_", "-"}),
      Opt(<<Lit("[")>>),
      Grp("seasonnumber", <<Plus(<<In(Digits)>>)>>),
      Lit("x"),
      Grp("episodenumber", <<Plus(<<In(Digits)>>)>>),
      Opt(<<Lit("]")>>),
      Star(<<NotIn({"/"})>>),
      Eol>>

\* foo.s01.e01, foo.s01_e01
DefaultPattern7 ==
    <<Bol,
      Grp("showname", <<LazyPlus(<<AnyChar>>)>>),
      In({" ", ".", "_", "-"}),
      In({"S", "s"}),
      Grp("seasonnumber", <<Plus(<<In(Digits)>>)>>),
      Opt(<<In({".", "-", " "})>>),
      In({"E", "e"}),
      Grp("episodenumber", <<Plus(<<In(Digits)>>)>>),
      Star(<<NotIn({"/"})>>),
      Eol>>

\* foo.103*
DefaultPattern8 ==
    <<Bol,
      Grp("showname", <<Plus(<<AnyChar>>)>>),
      In({" ", ".", "_", "-"}),
      Grp("seasonnumber", <<Rep(1, 1, TRUE, <<In(Digits)>>)>>),
      Grp("episodenumber", <<Rep(2, 2, TRUE, <<In(Digits)>>)>>),
      In({".", "_", " ", "-"}),
      Star(<<NotIn({"/"})>>),
      Eol>>

\* foo.0103*
DefaultPattern9 ==
    <<Bol,
      Grp("showname", <<Plus(<<AnyChar>>)>>),
      In({" ", ".", "_", "-"}),
      Grp("seasonnumber", <<Rep(2, 2, TRUE, <<In(Digits)>>)>>),
      Grp("episodenumber", <<Rep(2, 3, TRUE, <<In(Digits)>>)>>),
      In({".", "_", " ", "-"}),
      Star(<<NotIn({"/"})>>),
      Eol>>

\* Patterns a configuration file supplies in place of the defaults.
\* ^(?P<showname>.+?)\.(?P<seasonnumber>\d+)x(?P<episodenumber1>\d+)(\+(?P<episodenumber2>\d+))?
IndexedPattern ==
    <<Bol,
      Grp("showname", <<LazyPlus(<<AnyChar>>)>>),
      Lit("."),
      Grp("seasonnumber", <<Plus(<<In(Digits)>>)>>),
      Lit("x"),
      Grp("episodenumber1", <<Plus(<<In(Digits)>>)>>),
      Opt(<<Grp("", <<Lit("+"), Grp("episodenumber2", <<Plus(<<In(Digits)>>)>>)>>)>>)>>

\* (?P<showname>.*?)(?P<episodenumberstart>\d+)\D(\d+\D)*(?P<episodenumberend>\d+)
RangePattern ==
    <<Grp("showname", <<LazyStar(<<AnyChar>>)>>),
      Grp("episodenumberstart", <<Plus(<<In(Digits)>>)>>),
      NotIn(Digits),
      Star(<<Grp("", <<Plus(<<In(Digits)>>), NotIn(Digits)>>)>>),
      Grp("episodenumberend", <<Plus(<<In(Digits)>>)>>)>>

\* ^(?P<showname>\D*)(?P<episodenumber>\d+)
FirstNumberPattern ==
    <<Bol,
      Grp("showname", <<Star(<<NotIn(Digits)>>)>>),
      Grp("episodenumber", <<Plus(<<In(Digits)>>)>>)>>

\* (?P<showname>.*  -- the group is never closed
MalformedPattern ==
    <<Grp("showname", <<Star(<<AnyChar>>)>>), Unparsable>>

\* 'episodenumber(\d+)'
EpisodeNumberNPattern ==
    <<Lit("e"), Lit("p"), Lit("i"), Lit("s"), Lit("o"), Lit("d"), Lit("e"), Lit("n"), Lit("u"), Lit("m"), Lit("b"), Lit("e"), Lit("r"),
      Grp("", <<Plus(<<In(Digits)>>)>>)>>

\* What the regular expression parser makes of each source text.  A source is
\* written by the name of the definition above that spells it out.
SreParse ==
    [DefaultPattern1 |-> DefaultPattern1,
     DefaultPattern2 |-> DefaultPattern2,
     DefaultPattern3 |-> DefaultPattern3,
     DefaultPattern4 |-> DefaultPattern4,
     DefaultPattern5 |-> DefaultPattern5,
     DefaultPattern6 |-> DefaultPattern6,
     DefaultPattern7 |-> DefaultPattern7,
     DefaultPattern8 |-> DefaultPattern8,
     DefaultPattern9 |-> DefaultPattern9,
     IndexedPattern |-> IndexedPattern,
     RangePattern |-> RangePattern,
     FirstNumberPattern |-> FirstNumberPattern,
     MalformedPattern |-> MalformedPattern,
     EpisodeNumberNPattern |-> EpisodeNumberNPattern]

\* re.compile(cpattern, re.VERBOSE): re.error for a source that cannot be
\* parsed or that names a group twice, otherwise the compiled pattern, whose
\* .pattern is the source.
ReCompile(cpattern) ==
    Let(SreParse[cpattern], LAMBDA nodes :
        IF HasUnparsable(nodes)
             \/ Cardinality(GroupNames(nodes)) # Len(GroupNameSeq(nodes))
        THEN Raise("re.error")
        ELSE Ok([k |-> "regex", pattern |-> cpattern]))

\* cmatcher.match(filename): a match anchored at the start of filename only,
\* or NoMatch (Python's None).
ReMatch(cmatcher, filename) ==
    Let(SreParse[cmatcher.pattern], LAMBDA nodes :
        SreMatch(nodes, filename, 1, [g \in GroupNames(nodes) |-> Unset]))

\* match.groupdict(): every named group of the pattern, None for one that took
\* no part in the match.
GroupDict(match, filename) ==
    [g \in DOMAIN match.caps |->
        IF match.caps[g] = Unset THEN None
        ELSE StrV(SubSeq(filename, match.caps[g][1], match.caps[g][2] - 1))]

\* --------------------------------------------------------------- os.path

\* The last position of character c in s, 0 when there is none (str.rfind + 1).
RFind(s, c) ==
    IF \E j \in 1..Len(s) : s[j] = c
    THEN CHOOSE j \in 1..Len(s) : s[j] = c /\ \A h \in (j + 1)..Len(s) : s[h] # c
    ELSE 0

\* The first position of c in s from position i on, 0 when there is none.
Find(s, c, i) ==
    IF \E j \in i..Len(s) : s[j] = c
    THEN CHOOSE j \in i..Len(s) : s[j] = c /\ \A h \in i..(j - 1) : s[h] # c
    ELSE 0

RECURSIVE RStripSlash(_)
RStripSlash(s) ==
    IF Len(s) > 0 /\ s[Len(s)] = "/" THEN RStripSlash(SubSeq(s, 1, Len(s) - 1)) ELSE s

\* os.path.split(p): <<head, tail>>, tail being what follows the last slash and
\* head what precedes it, without its trailing slashes unless it is all slashes.
PathSplit(p) ==
    LET i == RFind(p, "/")
        head == SubSeq(p, 1, i)
        tail == SubSeq(p, i + 1, Len(p))
    IN  <<IF \A j \in 1..Len(head) : head[j] = "/" THEN head ELSE RStripSlash(head),
          tail>>

\* os.path.splitext(p): <<root, ext>>, ext starting at the last dot that follows
\* the last slash, unless only dots precede it in the base name.
PathSplitExt(p) ==
    LET sepIndex == RFind(p, "/")
        dotIndex == RFind(p, ".")
    IN  IF dotIndex > sepIndex
             /\ \E j \in (sepIndex + 1)..(dotIndex - 1) : p[j] # "."
        THEN <<SubSeq(p, 1, dotIndex - 1), SubSeq(p, dotIndex, Len(p))>>
        ELSE <<p, <<>>>>

\* os.path.join(a, b)
PathJoin(a, b) ==
    IF Len(b) > 0 /\ b[1] = "/" THEN b
    ELSE IF Len(a) = 0 \/ a[Len(a)] = "/" THEN a \o b
    ELSE a \o <<"/">> \o b

\* ------------------------------------------------ string formatting (str % x)

\* The characters of the names used as dictionary keys and group names.
Spelling ==
    "showname" :> <<"s", "h", "o", "w", "n", "a", "m", "e">> @@
    "seasonnumber" :> <<"s", "e", "a", "s", "o", "n", "n", "u", "m", "b", "e", "r">> @@
    "episodenumber" :> <<"e", "p", "i", "s", "o", "d", "e", "n", "u", "m", "b", "e", "r">> @@
    "episodenumberstart" :> <<"e", "p", "i", "s", "o", "d", "e", "n", "u", "m", "b", "e", "r", "s", "t", "a", "r", "t">> @@
    "episodenumberend" :> <<"e", "p", "i", "s", "o", "d", "e", "n", "u", "m", "b", "e", "r", "e", "n", "d">> @@
    "episodenumber1" :> <<"e", "p", "i", "s", "o", "d", "e", "n", "u", "m", "b", "e", "r", "1">> @@
    "episodenumber2" :> <<"e", "p", "i", "s", "o", "d", "e", "n", "u", "m", "b", "e", "r", "2">> @@
    "seasonno" :> <<"s", "e", "a", "s", "o", "n", "n", "o">> @@
    "episode" :> <<"e", "p", "i", "s", "o", "d", "e">> @@
    "episodename" :> <<"e", "p", "i", "s", "o", "d", "e", "n", "a", "m", "e">>

Dict(d) == [k |-> "dict", v |-> d]

IntStr(n) == IF n < 0 THEN <<"-">> \o NatStr(0 - n) ELSE NatStr(n)

RECURSIVE JoinInts(_)
JoinInts(l) ==
    IF Len(l) = 0 THEN <<>>
    ELSE IF Len(l) = 1 THEN IntStr(l[1])
    ELSE IntStr(l[1]) \o <<",", " ">> \o JoinInts(Tail(l))

\* str(x)
PyStr(x) ==
    CASE x.k = "str" -> x.v
      [] x.k = "int" -> IntStr(x.v)
      [] x.k = "None" -> <<"N", "o", "n", "e">>
      [] x.k = "bool" -> IF x.v THEN <<"T", "r", "u", "e">>
                         ELSE <<"F", "a", "l", "s", "e">>
      [] x.k = "list" -> <<"[">> \o JoinInts(x.v) \o <<"]">>

\* One conversion: %d wants a number (TypeError otherwise), %s takes str(x);
\* the result is padded on the left to the width, with zeros after the sign for
\* a number under the 0 flag and with blanks otherwise.
Convert(conv, zero, width, x) ==
    IF conv = "d"
    THEN IF x.k \notin {"int", "bool"} THEN Raise("TypeError")
         ELSE LET n == IF x.k = "bool" THEN (IF x.v THEN 1 ELSE 0) ELSE x.v
                  sign == IF n < 0 THEN <<"-">> ELSE <<>>
                  digits == NatStr(IF n < 0 THEN 0 - n ELSE n)
                  pad == width - Len(sign) - Len(digits)
              IN  Ok(IF zero THEN sign \o Zeros(pad) \o digits
                     ELSE Blanks(pad) \o sign \o digits)
    ELSE LET t == PyStr(x) IN Ok(Blanks(width - Len(t)) \o t)

\* The position of the ")" that ends the "(key" after the "%" at position j of
\* fmt: j itself for a conversion without a key, 0 for a key that is not ended.
KeyClose(fmt, j) ==
    IF j < Len(fmt) /\ fmt[j + 1] = "(" THEN Find(fmt, ")", j + 2) ELSE j

\* The conversion that starts with the "%" at position j of fmt: "%", an
\* optional "(key)" ending at close, an optional "0" flag, an optional width
\* of wlen digits from position w0, and the conversion character at c.
Specifier(fmt, j, close, w0, wlen) ==
    [keyed |-> close # j,
     close |-> close,
     key |-> SubSeq(fmt, j + 2, close - 1),
     zero |-> w0 = close + 2,
     width |-> DigitsValue(SubSeq(fmt, w0, w0 + wlen - 1)),
     c |-> w0 + wlen]

SpecifierAt(fmt, j) ==
    Let(KeyClose(fmt, j), LAMBDA close :
    Let(IF close + 1 <= Len(fmt) /\ fmt[close + 1] = "0" THEN close + 2 ELSE close + 1,
        LAMBDA w0 :
    Specifier(fmt, j, close, w0,
              IF w0 <= Len(fmt) THEN Run(In(Digits), fmt, w0, Inf) ELSE 0)))

\* The entries of a mapping whose key is spelt key.
Named(arg, key) ==
    IF arg.k = "dict" THEN {n \in DOMAIN arg.v : Spelling[n] = key} ELSE {}

RECURSIVE PyFormatFrom(_, _, _, _, _)
\* fmt % arg from position i of fmt on, acc being what is formatted so far and
\* used the number of positional arguments consumed.  arg is a mapping for
\* keyed conversions and one value otherwise; the conversions are "d", "s"
\* and "%".
PyFormatFrom(fmt, i, arg, used, acc) ==
    Let(Find(fmt, "%", i), LAMBDA j :
    IF j = 0
    THEN IF arg.k # "dict" /\ used = 0 THEN Raise("TypeError")
         ELSE Ok(acc \o SubSeq(fmt, i, Len(fmt)))
    ELSE Let(SpecifierAt(fmt, j), LAMBDA cv :
         IF cv.keyed /\ arg.k # "dict" THEN Raise("TypeError")
         ELSE IF cv.keyed /\ cv.close = 0 THEN Raise("ValueError")
         ELSE IF cv.keyed /\ Named(arg, cv.key) = {} THEN Raise("KeyError")
         ELSE IF cv.c > Len(fmt) THEN Raise("ValueError")
         ELSE IF fmt[cv.c] = "%"
         THEN PyFormatFrom(fmt, cv.c + 1, arg, used,
                           acc \o SubSeq(fmt, i, j - 1) \o <<"%">>)
         ELSE IF ~cv.keyed /\ used = 1 THEN Raise("TypeError")
         ELSE IF fmt[cv.c] \notin {"d", "s"} THEN Raise("ValueError")
         ELSE Try(Convert(fmt[cv.c], cv.zero, cv.width,
                          IF cv.keyed
                          THEN arg.v[CHOOSE n \in Named(arg, cv.key) : TRUE]
                          ELSE arg),
                  LAMBDA piece :
                  PyFormatFrom(fmt, cv.c + 1, arg, IF cv.keyed THEN used ELSE 1,
                               acc \o SubSeq(fmt, i, j - 1) \o piece))))

\* fmt % arg for a string fmt; a fmt of another type is not modelled further
\* than TypeError.
PyFormat(fmt, arg) ==
    IF fmt.k # "str" THEN Raise("TypeError")
    ELSE Try(PyFormatFrom(fmt.v, 1, arg, 0, <<>>), LAMBDA chars : Ok(StrV(chars)))

\* -------------------------------------------------------------- config.py

EmptyDict == [key \in {} |-> None]

\* dict.update: the entries of other over those of d.
Update(d, other) ==
    [key \in DOMAIN d \cup DOMAIN other |->
        IF key \in DOMAIN other THEN other[key] ELSE d[key]]

\* d[key]
GetItem(d, key) == IF key \in DOMAIN d THEN Ok(d[key]) ELSE Raise("KeyError")

defaults ==
    [verbose |-> BoolV(FALSE),
     recursive |-> BoolV(FALSE),
     episode_patterns |->
        ListV(<<StrV("DefaultPattern1"), StrV("DefaultPattern2"), StrV("DefaultPattern3"),
                StrV("DefaultPattern4"), StrV("DefaultPattern5"), StrV("DefaultPattern6"),
                StrV("DefaultPattern7"), StrV("DefaultPattern8"), StrV("DefaultPattern9")>>),
     \* '%(showname)s - [%(seasonno)02dx%(episode)s] - %(episodename)s'
     filename_with_episode |->
        StrV(<<"%", "(", "s", "h", "o", "w", "n", "a", "m", "e", ")", "s", " ", "-", " ", "[", "%", "(", "s", "e", "a", "s", "o", "n", "n", "o", ")", "0", "2", "d", "x", "%", "(", "e", "p", "i", "s", "o", "d", "e", ")", "s", "]", " ", "-", " ", "%", "(", "e", "p", "i", "s", "o", "d", "e", "n", "a", "m", "e", ")", "s">>),
     \* '%(showname)s - [%(seasonno)02dx%(episode)s]'
     filename_without_episode |->
        StrV(<<"%", "(", "s", "h", "o", "w", "n", "a", "m", "e", ")", "s", " ", "-", " ", "[", "%", "(", "s", "e", "a", "s", "o", "n", "n", "o", ")", "0", "2", "d", "x", "%", "(", "e", "p", "i", "s", "o", "d", "e", ")", "s", "]">>),
     \* 'e%02d'
     episode_single |-> StrV(<<"e", "%", "0", "2", "d">>),
     episode_seperator |-> StrV(<<>>)]

\* Every default the store does not hold yet is set (dict.setdefault).
_setDefaults(self) == Update(defaults, self)

_clearConfig(self) == EmptyDict

RECURSIVE _deserialiseItem(_, _)
RECURSIVE DeserialiseList(_, _, _)

\* The value of an <option> or <value> element by its type attribute: None for
\* a type it does not know.  The message of the error for a bad boolean has two
\* conversions and one argument, so building it raises TypeError.
_deserialiseItem(ctype, citem) ==
    CASE ctype = "int" -> Try(PyInt(citem.text), LAMBDA n : Ok(IntV(n)))
      [] ctype = "string" -> Ok(citem.text)
      [] ctype = "bool" ->
           IF citem.text = StrV(<<"T", "r", "u", "e">>) THEN Ok(BoolV(TRUE))
           ELSE IF citem.text = StrV(<<"F", "a", "l", "s", "e">>) THEN Ok(BoolV(FALSE))
           ELSE Raise("TypeError")
      [] ctype = "list" -> DeserialiseList(citem.children, 1, <<>>)
      [] OTHER -> Ok(None)

DeserialiseList(children, i, ret) ==
    IF i > Len(children) THEN Ok(ListV(ret))
    ELSE Try(GetItem(children[i].attrib, "type"), LAMBDA ctype :
         Try(_deserialiseItem(ctype, children[i]), LAMBDA x :
             DeserialiseList(children, i + 1, Append(ret, x))))

RECURSIVE LoadOptions(_, _, _)
\* for citem in root: conf[citem.attrib['name']] = _deserialiseItem(...)
LoadOptions(children, i, conf) ==
    IF i > Len(children) THEN Ok(conf)
    ELSE Try(GetItem(children[i].attrib, "type"), LAMBDA ctype :
         Try(_deserialiseItem(ctype, children[i]), LAMBDA value :
         Try(GetItem(children[i].attrib, "name"), LAMBDA name :
             LoadOptions(children, i + 1, Update(conf, [key \in {name} |-> value])))))

\* The options of an XML document as a dictionary.  xmlsrc is the document as
\* the XML parser reads it: whether it is well formed, and its root element.
_loadConfig(xmlsrc) ==
    IF ~xmlsrc.wellformed THEN Raise("InvalidConfigFile")
    ELSE Try(GetItem(xmlsrc.root.attrib, "version"), LAMBDA text :
         Try(PyInt(text), LAMBDA version :
             IF version # 1 THEN Raise("WrongConfigVersion")
             ELSE LoadOptions(xmlsrc.root.children, 1, EmptyDict)))

\* loadConfig(filename): the store afterwards and the outcome of the call.  file
\* is what the filename names: whether it can be read, and its contents.
loadConfig(self, file) ==
    IF ~file.readable
    THEN [self |-> _clearConfig(self), result |-> Raise("InvalidConfigFile")]
    ELSE Let(_loadConfig(file.xmlsrc), LAMBDA loaded_conf :
             IF loaded_conf.k = "raise"
             THEN [self |-> _clearConfig(self), result |-> loaded_conf]
             ELSE [self |-> Update(_setDefaults(_clearConfig(self)), loaded_conf.v),
                   result |-> Ok(None)])

useDefaultConfig(self) == _setDefaults(_clearConfig(self))

\* ------------------------------------------------------ utils.py: FileParser

Unbound == [k |-> "unbound"]

RECURSIVE CompileFrom(_, _, _, _, _)
\* The loop of _compileRegexs from the i-th pattern on.  cregex is the local
\* variable of that name: unbound until a pattern has compiled, and read by the
\* handler of re.error to build the warning.
CompileFrom(patterns, i, cregex, compiled_regexs, warnings) ==
    IF i > Len(patterns)
    THEN [result |-> Ok(compiled_regexs), warnings |-> warnings]
    ELSE IF patterns[i].k # "str"
    THEN [result |-> Raise("TypeError"), warnings |-> warnings]
    ELSE Let(ReCompile(patterns[i].v), LAMBDA c :
         IF c.k = "raise"
         THEN IF cregex.k = "unbound"
              THEN [result |-> Raise("UnboundLocalError"), warnings |-> warnings]
              ELSE CompileFrom(patterns, i + 1, cregex, compiled_regexs,
                               Append(warnings, [shown |-> cregex.pattern]))
         ELSE CompileFrom(patterns, i + 1, c.v, Append(compiled_regexs, c.v), warnings))

\* _compileRegexs: the compiled patterns, or the error that ends it, and the
\* warnings written to stderr (each with the pattern its text shows).
_compileRegexs(config) ==
    Let(GetItem(config, "episode_patterns"), LAMBDA patterns :
        IF patterns.k = "raise" THEN [result |-> patterns, warnings |-> <<>>]
        ELSE IF patterns.v.k # "list"
        THEN [result |-> Raise("TypeError"), warnings |-> <<>>]
        ELSE CompileFrom(patterns.v.v, 1, Unbound, <<>>, <<>>))

\* FileParser(path): the new object, or the error of _compileRegexs.
FileParser(config, path) ==
    Let(_compileRegexs(config), LAMBDA c :
        [result |-> IF c.result.k = "raise" THEN c.result
                    ELSE Ok([path |-> path, compiled_regexs |-> c.result.v]),
         warnings |-> c.warnings])

\* re.match('episodenumber(\d+)', cur) compiles this pattern.
EpisodeNumberN == ReCompile("EpisodeNumberNPattern").v

RECURSIVE Insert(_, _)
Insert(sorted, x) ==
    IF Len(sorted) = 0 THEN <<x>>
    ELSE IF x < Head(sorted) THEN <<x>> \o sorted
    ELSE <<Head(sorted)>> \o Insert(Tail(sorted), x)

RECURSIVE Sort(_)
\* list.sort() of a list of integers
Sort(l) == IF Len(l) = 0 THEN <<>> ELSE Insert(Sort(SubSeq(l, 1, Len(l) - 1)), l[Len(l)])

\* range(a, b)
PyRange(a, b) == [i \in 1..(b - a) |-> a + i - 1]

\* match.group(name): IndexError for a name the pattern has no group of.
MatchGroup(groupdict, name) ==
    IF name \in DOMAIN groupdict THEN Ok(groupdict[name]) ELSE Raise("IndexError")

\* int(match.group(name))
GroupInt(groupdict, name) ==
    Try(MatchGroup(groupdict, name), LAMBDA g : PyInt(g))

RECURSIVE CollectEpnos(_, _, _, _)
\* for cur in namedgroups: the integers of the groups whose name
\* 'episodenumber(\d+)' matches, in the order the names are enumerated.
CollectEpnos(namedgroups, i, groupdict, epnos) ==
    IF i > Len(namedgroups) THEN Ok(epnos)
    ELSE IF ReMatch(EpisodeNumberN, Spelling[namedgroups[i]]).ok
    THEN Try(GroupInt(groupdict, namedgroups[i]), LAMBDA n :
             CollectEpnos(namedgroups, i + 1, groupdict, Append(epnos, n)))
    ELSE CollectEpnos(namedgroups, i + 1, groupdict, epnos)

\* EpisodeNumbers with the range ending before episodenumberend:
\* range(start, end) in place of range(start, end + 1).
EpisodeNumbersExclusive(groupdict, namedgroups) ==
    IF "episodenumber1" \in DOMAIN groupdict
    THEN Try(CollectEpnos(namedgroups, 1, groupdict, <<>>), LAMBDA epnos :
             Ok(ListV(Sort(epnos))))
    ELSE IF "episodenumberstart" \in DOMAIN groupdict
    THEN Try(GroupInt(groupdict, "episodenumberstart"), LAMBDA start :
         Try(GroupInt(groupdict, "episodenumberend"), LAMBDA end :
             Ok(ListV(PyRange(start, end)))))
    ELSE Try(GroupInt(groupdict, "episodenumber"), LAMBDA n : Ok(IntV(n)))

\* The episode numbers of a match (lines 108-125): the sorted list of the
\* indexed groups when there is an episodenumber1, else the range from
\* episodenumberstart to episodenumberend, else the one episodenumber.
EpisodeNumbers(groupdict, namedgroups) ==
    IF "episodenumber1" \in DOMAIN groupdict
    THEN Try(CollectEpnos(namedgroups, 1, groupdict, <<>>), LAMBDA epnos :
             Ok(ListV(Sort(epnos))))
    ELSE IF "episodenumberstart" \in DOMAIN groupdict
    THEN Try(GroupInt(groupdict, "episodenumberstart"), LAMBDA start :
         Try(GroupInt(groupdict, "episodenumberend"), LAMBDA end :
             Ok(ListV(PyRange(start, end + 1)))))
    ELSE Try(GroupInt(groupdict, "episodenumber"), LAMBDA n : Ok(IntV(n)))

EpisodeInfo(showname, seasonnumber, episodenumber, episodename, filename) ==
    [showname |-> showname, seasonnumber |-> seasonnumber,
     episodenumber |-> episodenumber, episodename |-> episodename,
     filename |-> filename]

\* What parse makes of the first match (lines 106-138).  order is the order in
\* which the dictionary of groups enumerates its keys.
Extract(self, groupdict, order) ==
    Try(EpisodeNumbers(groupdict, SelectSeq(order, LAMBDA g : g \in DOMAIN groupdict)),
        LAMBDA episodenumber :
    Try(IF "seasonnumber" \in DOMAIN groupdict
        THEN Try(GroupInt(groupdict, "seasonnumber"), LAMBDA n : Ok(IntV(n)))
        ELSE Ok(None),
        LAMBDA seasonnumber :
    Try(MatchGroup(groupdict, "showname"),
        LAMBDA showname :
    Ok(EpisodeInfo(showname, seasonnumber, episodenumber, None, self.path)))))

\* The paths given to FileParser.
Paths ==
    {<<"d", "1", "/", "S">>,
     <<"[", "g", "]", " ", "S", " ", "-", " ", "0", "1", "-", "0", "7", "-", "0", "3">>,
     <<"d", "/", "[", "g", "]", " ", "S", " ", "-", " ", "0", "7", ".", "a", "v", "i">>,
     <<"S", ".", "s", "0", "1", "e", "0", "1">>,
     <<"S", ".", "2", "x", "3", "+", "1">>,
     <<"S", ".", "2", "x", "3">>}

\* The patterns a configuration file may list besides the defaults.
CustomPatterns ==
    {"IndexedPattern", "RangePattern", "FirstNumberPattern", "MalformedPattern"}

DefaultPatterns ==
    {defaults.episode_patterns.v[i].v : i \in 1..Len(defaults.episode_patterns.v)}

\* cmatcher.match(filename) for every compiled pattern and every path or base
\* name of the model, worked out once.
MatchTable ==
    [cf \in {src \in DefaultPatterns \cup CustomPatterns : ReCompile(src).k = "ok"}
            \X (Paths \cup {PathSplit(path)[2] : path \in Paths}) |->
        ReMatch(ReCompile(cf[1]).v, cf[2])]

\* cmatcher.match(filename), looked up in the table.
Match(cmatcher, filename) == MatchTable[<<cmatcher.pattern, filename>>]

RECURSIVE ParseFromLastMatch(_, _, _, _)
\* ParseFrom with the loop run to its end: the last pattern that matches
\* decides.
ParseFromLastMatch(self, filename, i, order) ==
    IF i > Len(self.compiled_regexs) THEN Raise("InvalidFilename")
    ELSE Let(ParseFromLastMatch(self, filename, i + 1, order), LAMBDA later :
         IF later # Raise("InvalidFilename")
              \/ ~Match(self.compiled_regexs[i], filename).ok
         THEN later
         ELSE Extract(self, GroupDict(Match(self.compiled_regexs[i], filename), filename),
                      order))

RECURSIVE ParseFrom(_, _, _, _)
\* for cmatcher in self.compiled_regexs, from the i-th on: the first match
\* decides, and InvalidFilename is raised when the loop runs out.
ParseFrom(self, filename, i, order) ==
    IF i > Len(self.compiled_regexs) THEN Raise("InvalidFilename")
    ELSE Let(Match(self.compiled_regexs[i], filename), LAMBDA match :
         IF match.ok THEN Extract(self, GroupDict(match, filename), order)
         ELSE ParseFrom(self, filename, i + 1, order))

\* parse with the patterns matched against the whole path, directories
\* included, in place of the base name.
parseWholePath(self, order) == ParseFrom(self, self.path, 1, order)

\* FileParser.parse
parse(self, order) == ParseFrom(self, PathSplit(self.path)[2], 1, order)

\* ------------------------------------------------------ utils.py: EpisodeInfo

RECURSIVE JoinFormattedNoSeparator(_, _, _, _, _)
\* JoinFormatted with the formatted numbers put end to end, the separator
\* left out.
JoinFormattedNoSeparator(config, sep, episodenumber, i, acc) ==
    IF i > Len(episodenumber) THEN Ok(StrV(acc))
    ELSE Try(GetItem(config, "episode_single"), LAMBDA single :
         Try(PyFormat(single, IntV(episodenumber[i])), LAMBDA one :
             JoinFormattedNoSeparator(config, sep, episodenumber, i + 1,
                                      acc \o one.v)))

RECURSIVE JoinFormatted(_, _, _, _, _)
\* sep.join(single % x for x in episodenumber), from the i-th number on
JoinFormatted(config, sep, episodenumber, i, acc) ==
    IF i > Len(episodenumber) THEN Ok(StrV(acc))
    ELSE Try(GetItem(config, "episode_single"), LAMBDA single :
         Try(PyFormat(single, IntV(episodenumber[i])), LAMBDA one :
             JoinFormatted(config, sep, episodenumber, i + 1,
                           (IF i = 1 THEN acc ELSE acc \o sep) \o one.v)))

\* The episode number(s) as a string (lines 170-174).
EpisodeString(self, config) ==
    IF self.episodenumber.k = "list"
    THEN Try(GetItem(config, "episode_seperator"), LAMBDA sep :
             IF sep.k # "str" THEN Raise("AttributeError")
             ELSE JoinFormatted(config, sep.v, self.episodenumber.v, 1, <<>>))
    ELSE Try(GetItem(config, "episode_single"), LAMBDA single :
             PyFormat(single, self.episodenumber))

\* The template generateFilename picks (lines 182-185).
TemplateKey(self) ==
    IF self.episodename = None THEN "filename_with_episode"
    ELSE "filename_without_episode"

\* EpisodeInfo.generateFilename: the episode string, and the returned name or
\* the error raised.
generateFilename(self, config) ==
    Let(EpisodeString(self, config), LAMBDA epno :
        [epno |-> epno,
         result |->
            Try(epno, LAMBDA episode :
            Try(GetItem(config, TemplateKey(self)), LAMBDA template :
                PyFormat(template, Dict([showname |-> self.showname,
                                         seasonno |-> self.seasonnumber,
                                         episode |-> episode,
                                         episodename |-> self.episodename]))))])

\* --------------------------------------------------------- utils.py: Renamer

\* newName with self.filename assigned before os.rename is called, so that a
\* refused rename leaves the new path tracked.
newNameAssignFirst(self, newName_, keepExtension, oserror) ==
    LET filepath == PathSplit(self.filename)[1]
        filename == PathSplit(self.filename)[2]
        fileext == PathSplitExt(filename)[2]
        name == IF keepExtension THEN newName_ \o fileext ELSE newName_
        newpath == PathJoin(filepath, name)
    IN  IF oserror
        THEN [self |-> [filename |-> newpath], moved |-> self.filename,
              result |-> Raise("OSError")]
        ELSE [self |-> [filename |-> newpath], moved |-> newpath, result |-> Ok(None)]

\* Renamer.newName: the object afterwards and the outcome.  oserror is whether
\* the file system refuses the rename; moved is where the file then is.
newName(self, newName_, keepExtension, oserror) ==
    LET filepath == PathSplit(self.filename)[1]
        filename == PathSplit(self.filename)[2]
        fileext == PathSplitExt(filename)[2]
        name == IF keepExtension THEN newName_ \o fileext ELSE newName_
        newpath == PathJoin(filepath, name)
    IN  IF oserror
        THEN [self |-> self, moved |-> self.filename, result |-> Raise("OSError")]
        ELSE [self |-> [filename |-> newpath], moved |-> newpath, result |-> Ok(None)]

\* ------------------------------------------------------------ the inputs

MaxPatterns == 2
MaxEpisodes == 2

\* The sequences of at most n elements of S.
SeqsUpTo(S, n) == UNION {[1..m -> S] : m \in 0..n}

\* The XML of a configuration file: elements with their attributes, text and
\* children.  The version attribute is kept as text, for int() to read.
Option(name, type, text) ==
    [attrib |-> [name |-> name, type |-> type], text |-> text, children |-> <<>>]
Value(type, text) ==
    [attrib |-> [type |-> type], text |-> text, children |-> <<>>]
ListOption(name, values) ==
    [attrib |-> [name |-> name, type |-> "list"], text |-> None,
     children |-> [i \in 1..Len(values) |-> Value("string", StrV(values[i]))]]
Document(attrib, options) ==
    [wellformed |-> TRUE,
     root |-> [attrib |-> attrib, text |-> None, children |-> options]]
File(xmlsrc) == [readable |-> TRUE, xmlsrc |-> xmlsrc]
Version1 == [version |-> StrV(<<"1">>)]

\* Files loadConfig fails on: one that cannot be opened, one that is not XML,
\* one of version 2, one with no version, one with a boolean that is neither
\* True nor False.
BrokenFiles ==
    {[readable |-> FALSE, xmlsrc |-> [wellformed |-> FALSE]],
     File([wellformed |-> FALSE]),
     File(Document([version |-> StrV(<<"2">>)], <<>>)),
     File(Document(EmptyDict, <<>>)),
     File(Document(Version1, <<Option("verbose", "bool", StrV(<<"y", "e", "s">>))>>))}

\* Files that set episode_patterns, and one that sets nothing.
PatternFiles ==
    {File(Document(Version1, <<ListOption("episode_patterns", l)>>)) :
        l \in SeqsUpTo(CustomPatterns, MaxPatterns)}
    \cup {File(Document(Version1, <<>>))}

\* Files that set the formats and templates: 'E%d' joined by '-', and
\* templates without the season, '%(showname)s - %(episode)s' and
\* '%(showname)s - %(episode)s - %(episodename)s'.
FormatFiles ==
    {File(Document(Version1,
        <<Option("episode_single", "string", StrV(<<"E", "%", "d">>)),
          Option("episode_seperator", "string", StrV(<<"-">>))>>)),
     File(Document(Version1,
        <<Option("filename_with_episode", "string",
                 StrV(<<"%", "(", "s", "h", "o", "w", "n", "a", "m", "e", ")", "s", " ", "-", " ", "%", "(", "e", "p", "i", "s", "o", "d", "e", ")", "s", " ", "-", " ", "%", "(", "e", "p", "i", "s", "o", "d", "e", "n", "a", "m", "e", ")", "s">>)),
          Option("filename_without_episode", "string",
                 StrV(<<"%", "(", "s", "h", "o", "w", "n", "a", "m", "e", ")", "s", " ", "-", " ", "%", "(", "e", "p", "i", "s", "o", "d", "e", ")", "s">>))>>))}

\* The orders in which a dictionary of groups may enumerate its keys: one
\* order of all the names and its reverse, which put any two names both ways.
NameOrder ==
    <<"showname", "episodenumber2", "seasonnumber", "episodenumber",
      "episodenumberstart", "episodenumber1", "episodenumberend">>
KeyOrders ==
    {NameOrder, [i \in 1..Len(NameOrder) |-> NameOrder[Len(NameOrder) + 1 - i]]}

\* The fields EpisodeInfo is constructed with directly.
ShowNames == {StrV(<<"S">>)}
SeasonNumbers == {None, IntV(1)}
EpisodeNumberValues ==
    {None, IntV(7), IntV(123)}
        \cup {ListV(l) : l \in SeqsUpTo({1, 2, 10}, MaxEpisodes)}
EpisodeNames == {None, StrV(<<"T">>)}

\* The files given to Renamer and the names they are renamed to.
RenamerPaths ==
    {<<"d", "/", "m", ".", "s", ".", "a">>, <<"m", ".", "a">>, <<"/", "n">>, <<"d", ".", "x", "/", "n">>}
NewNames == {<<"T">>, <<"U", ".", "m">>}

\* ------------------------------------------------------- the state machine

VARIABLES
    Config,     \* the Config store: a dictionary from option names to values
    parser,     \* the FileParser in use, or None
    episode,    \* the EpisodeInfo in use, or None
    renamer,    \* the Renamer in use, or None
    disk,       \* where the Renamer's file is on disk, or None
    last        \* the last call: its name, arguments and outcome

vars == <<Config, parser, episode, renamer, disk, last>>

\* Config = _ConfigManager() with no ~/.tvnamer.xml: the defaults.  (With that
\* file present the constructor hands its path to _loadConfig as if it were the
\* XML, which raises InvalidConfigFile while config is imported: there is no
\* store then.)
Init ==
    /\ Config = useDefaultConfig(EmptyDict)
    /\ parser = None
    /\ episode = None
    /\ renamer = None
    /\ disk = None
    /\ last = [call |-> "import"]

Config_loadConfig(files) ==
    \E file \in files :
        \E r \in {loadConfig(Config, file)} :
            /\ Config' = r.self
            /\ last' = [call |-> "loadConfig", result |-> r.result]
            /\ UNCHANGED <<parser, episode, renamer, disk>>

LoadPatterns == Config_loadConfig(PatternFiles \cup BrokenFiles)

LoadFormats == Config_loadConfig(FormatFiles \cup BrokenFiles)

Config_useDefaultConfig ==
    /\ Config' = useDefaultConfig(Config)
    /\ last' = [call |-> "useDefaultConfig", result |-> Ok(None)]
    /\ UNCHANGED <<parser, episode, renamer, disk>>

\* parser = FileParser(path); no parser is left when the constructor raises.
FileParser_init ==
    \E path \in Paths :
        \E r \in {FileParser(Config, path)} :
            /\ parser' = IF r.result.k = "ok" THEN r.result.v ELSE None
            /\ last' = [call |-> "FileParser", path |-> path,
                        result |-> IF r.result.k = "ok" THEN Ok(None) ELSE r.result,
                        warnings |-> r.warnings]
            /\ UNCHANGED <<Config, episode, renamer, disk>>

\* episode = parser.parse(); no episode is left when parse raises.
FileParser_parse ==
    /\ parser # None
    /\ \E order \in KeyOrders :
        \E r \in {parse(parser, order)} :
            /\ episode' = IF r.k = "ok" THEN r.v ELSE None
            /\ last' = [call |-> "parse", order |-> order, result |-> r]
    /\ UNCHANGED <<Config, parser, renamer, disk>>

EpisodeInfo_init ==
    \E showname \in ShowNames, seasonnumber \in SeasonNumbers,
       episodenumber \in EpisodeNumberValues, episodename \in EpisodeNames :
        /\ episode' = EpisodeInfo(showname, seasonnumber, episodenumber,
                                  episodename, None)
        /\ last' = [call |-> "EpisodeInfo", result |-> Ok(None)]
        /\ UNCHANGED <<Config, parser, renamer, disk>>

EpisodeInfo_generateFilename ==
    /\ episode # None
    /\ \E r \in {generateFilename(episode, Config)} :
          last' = [call |-> "generateFilename", epno |-> r.epno, result |-> r.result]
    /\ UNCHANGED <<Config, parser, episode, renamer, disk>>

\* renamer = Renamer(filename), for a file that is at filename.
Renamer_init ==
    \E filename \in RenamerPaths :
        /\ renamer' = [filename |-> filename]
        /\ disk' = filename
        /\ last' = [call |-> "Renamer", result |-> Ok(None)]
        /\ UNCHANGED <<Config, parser, episode>>

Renamer_newName ==
    /\ renamer # None
    /\ \E newName_ \in NewNames, keepExtension \in BOOLEAN, oserror \in BOOLEAN :
        \E r \in {newName(renamer, newName_, keepExtension, oserror)} :
            /\ renamer' = r.self
            /\ disk' = r.moved
            /\ last' = [call |-> "newName", old |-> renamer.filename,
                        newName |-> newName_, keepExtension |-> keepExtension,
                        result |-> r.result]
    /\ UNCHANGED <<Config, parser, episode>>

\* Configuring, then parsing file names and naming the episodes found: the
\* configuration is settled before the first FileParser is made.
Next ==
    \/ parser = None /\ LoadPatterns
    \/ parser = None /\ Config_useDefaultConfig
    \/ FileParser_init
    \/ FileParser_parse
    \/ EpisodeInfo_generateFilename

Spec == Init /\ [][Next]_vars

\* Configuring the formats, and naming episodes constructed directly.
NextRender ==
    \/ LoadFormats
    \/ Config_useDefaultConfig
    \/ EpisodeInfo_init
    \/ EpisodeInfo_generateFilename

SpecRender == Init /\ [][NextRender]_vars

\* Renaming files.
NextRenamer ==
    \/ Renamer_init
    \/ Renamer_newName

SpecRenamer == Init /\ [][NextRenamer]_vars

\* ------------------------------------------------------------ properties

\* What the properties say of the state after parser.parse(): the base name,
\* the positions of the compiled patterns that match it, the first of them and
\* the groups of its match.
Parsed == last.call = "parse"
BaseName == PathSplit(parser.path)[2]
Hits ==
    {i \in 1..Len(parser.compiled_regexs) :
        Match(parser.compiled_regexs[i], BaseName).ok}
Winner == CHOOSE i \in Hits : \A j \in Hits : i <= j
GroupsOf(i) == GroupDict(Match(parser.compiled_regexs[i], BaseName), BaseName)
WinnerGroups == GroupsOf(Winner)

\* The integer a captured run of digits spells.
Captured(groupdict, g) == DigitsValue(groupdict[g].v)

\* Whether a group name is episodenumber followed by digits.
IsIndexedName(g) ==
    LET text == Spelling[g]
        stem == Spelling["episodenumber"]
    IN  /\ Len(text) > Len(stem)
        /\ SubSeq(text, 1, Len(stem)) = stem
        /\ \A i \in (Len(stem) + 1)..Len(text) : text[i] \in Digits

\* Whether sub occurs in s.
Contains(s, sub) ==
    \E i \in 1..(Len(s) - Len(sub) + 1) : SubSeq(s, i, i + Len(sub) - 1) = sub

RECURSIVE Joined(_, _)
\* The strings of parts with sep between each two.
Joined(parts, sep) ==
    IF Len(parts) = 0 THEN <<>>
    ELSE IF Len(parts) = 1 THEN parts[1]
    ELSE parts[1] \o sep \o Joined(Tail(parts), sep)

\* C1: whenever some compiled pattern matches the base name, parse ends as the
\* extraction from the lowest-indexed matching pattern ends; a descriptor it
\* returns has showname and seasonnumber from that pattern's captures alone,
\* whatever later patterns would have matched.
C1_FirstMatchWins ==
    (Parsed /\ Hits # {}) =>
        /\ last.result = Extract(parser, WinnerGroups, last.order)
        /\ last.result.k = "ok" =>
            /\ episode = last.result.v
            /\ episode.showname = WinnerGroups["showname"]
            /\ episode.seasonnumber =
                  IF "seasonnumber" \in DOMAIN WinnerGroups
                  THEN IntV(Captured(WinnerGroups, "seasonnumber"))
                  ELSE None
            /\ "episodenumber" \in DOMAIN WinnerGroups =>
                  episode.episodenumber =
                      IntV(Captured(WinnerGroups, "episodenumber"))

\* C1 witness: a descriptor was returned where a later pattern matches too and
\* would have given another descriptor.
C1_Witness ==
    /\ Parsed
    /\ last.result.k = "ok"
    /\ \E j \in Hits :
          /\ j > Winner
          /\ Extract(parser, GroupsOf(j), last.order).k = "ok"
          /\ Extract(parser, GroupsOf(j), last.order) # last.result

\* C2: when no compiled pattern matches the base name, parse raises
\* InvalidFilename and leaves no descriptor; a descriptor is returned only for
\* a base name some compiled pattern matches.
C2_NoMatchIsInvalidFilename ==
    Parsed =>
        /\ Hits = {} => (last.result = Raise("InvalidFilename") /\ episode = None)
        /\ last.result.k = "ok" => Hits # {}

\* C2 witness: InvalidFilename from a parser that has patterns, none matching
\* the base name, for a path with a directory in front.
C2_Witness ==
    /\ Parsed
    /\ Len(parser.compiled_regexs) > 0
    /\ Hits = {}
    /\ PathSplit(parser.path)[1] # <<>>
    /\ last.result = Raise("InvalidFilename")

\* C3: for a configured list of pattern sources, FileParser(path) does not
\* raise, warns once for each malformed source, and compiles exactly the
\* well-formed sources, in their order.
C3_MalformedPatternsOnlyWarn ==
    (last.call = "FileParser" /\ "episode_patterns" \in DOMAIN Config) =>
        LET sources == Config["episode_patterns"].v
            good == SelectSeq(sources, LAMBDA src : ReCompile(src.v).k = "ok")
        IN  /\ last.result.k = "ok"
            /\ Len(last.warnings) = Len(sources) - Len(good)
            /\ [i \in 1..Len(parser.compiled_regexs) |->
                    parser.compiled_regexs[i].pattern]
                 = [i \in 1..Len(good) |-> good[i].v]

\* C4: generateFilename returns the filename_without_episode template filled
\* in when episodename is None, and the filename_with_episode template filled
\* in when there is an episodename.
C4_TemplateByEpisodeName ==
    (/\ last.call = "generateFilename"
     /\ last.epno.k = "ok"
     /\ {"filename_with_episode", "filename_without_episode"} \subseteq DOMAIN Config) =>
        last.result =
            PyFormat(Config[IF episode.episodename = None
                            THEN "filename_without_episode"
                            ELSE "filename_with_episode"],
                     Dict([showname |-> episode.showname,
                           seasonno |-> episode.seasonnumber,
                           episode |-> last.epno.v,
                           episodename |-> episode.episodename]))

\* C5: when the first matching pattern has episodenumberstart and
\* episodenumberend and no episodenumber1, parse returns a descriptor whose
\* episodenumber is the strictly ascending list of exactly the integers from
\* start to end, both included: 1 and 3 give [1, 2, 3], equal ends give one
\* element, whatever numbers stand between them in the name.
C5_RangeIsInclusive ==
    (/\ Parsed
     /\ Hits # {}
     /\ {"episodenumberstart", "episodenumberend"} \subseteq DOMAIN WinnerGroups
     /\ "episodenumber1" \notin DOMAIN WinnerGroups) =>
        LET start == Captured(WinnerGroups, "episodenumberstart")
            end == Captured(WinnerGroups, "episodenumberend")
        IN  /\ last.result.k = "ok"
            /\ episode.episodenumber.k = "list"
            /\ LET l == episode.episodenumber.v IN
                /\ \A i, j \in 1..Len(l) : i < j => l[i] < l[j]
                /\ {l[i] : i \in 1..Len(l)} = start..end
                /\ (start = 1 /\ end = 3) => l = <<1, 2, 3>>
                /\ start = end => l = <<start>>

\* C5 witness: [g] S - 01-07-03 parsed into episodes [1, 2, 3], the 07 between
\* the ends left out.
C5_Witness ==
    /\ Parsed
    /\ Hits # {}
    /\ "episodenumberstart" \in DOMAIN WinnerGroups
    /\ "episodenumber1" \notin DOMAIN WinnerGroups
    /\ Contains(BaseName, <<"0", "7">>)
    /\ last.result.k = "ok"
    /\ episode.episodenumber = ListV(<<1, 2, 3>>)

\* C6: when the first matching pattern has episodenumber1, parse returns a
\* descriptor whose episodenumber is the ascending list of the integers of the
\* indexed groups that took part in the match, each once for each group, and
\* of nothing else, in whatever order the group names are enumerated.
C6_IndexedCapturesSorted ==
    (Parsed /\ Hits # {} /\ "episodenumber1" \in DOMAIN WinnerGroups) =>
        LET present == {g \in DOMAIN WinnerGroups :
                            IsIndexedName(g) /\ WinnerGroups[g] # None}
        IN  /\ last.result.k = "ok"
            /\ episode.episodenumber.k = "list"
            /\ LET l == episode.episodenumber.v IN
                /\ \A i, j \in 1..Len(l) : i < j => l[i] <= l[j]
                /\ Len(l) = Cardinality(present)
                /\ \A g \in present :
                      Cardinality({i \in 1..Len(l) : l[i] = Captured(WinnerGroups, g)})
                        = Cardinality({h \in present :
                              Captured(WinnerGroups, h) = Captured(WinnerGroups, g)})

\* C7: the episode string of generateFilename is each number of a list
\* formatted with episode_single, in order, with episode_seperator between
\* them, and the one number formatted with episode_single for an integer; the
\* name returned holds it.  Under 'e%02d' and '' it is e07 for 7 and e01e02 for
\* [1, 2].
C7_EpisodeString ==
    (/\ last.call = "generateFilename"
     /\ {"episode_single", "episode_seperator"} \subseteq DOMAIN Config
     /\ episode.episodenumber.k \in {"int", "list"}) =>
        LET single == Config["episode_single"]
            sep == Config["episode_seperator"]
            numbers == IF episode.episodenumber.k = "int"
                       THEN <<episode.episodenumber.v>>
                       ELSE episode.episodenumber.v
            parts == [i \in 1..Len(numbers) |-> PyFormat(single, IntV(numbers[i]))]
        IN  (\A i \in 1..Len(numbers) : parts[i].k = "ok") =>
                /\ last.epno =
                      Ok(StrV(Joined([i \in 1..Len(numbers) |-> parts[i].v.v],
                                     IF episode.episodenumber.k = "int"
                                     THEN <<>> ELSE sep.v)))
                /\ last.result.k = "ok" => Contains(last.result.v.v, last.epno.v.v)
                /\ (single = defaults.episode_single /\ sep = defaults.episode_seperator) =>
                      /\ episode.episodenumber = IntV(7) =>
                            last.epno = Ok(StrV(<<"e", "0", "7">>))
                      /\ episode.episodenumber = ListV(<<1, 2>>) =>
                            last.epno = Ok(StrV(<<"e", "0", "1", "e", "0", "2">>))

\* C7 witness: episodes [1, 2] named under 'E%d' joined by '-': the name
\* returned holds E1-E2.
C7_Witness ==
    /\ last.call = "generateFilename"
    /\ episode.episodenumber = ListV(<<1, 2>>)
    /\ last.epno = Ok(StrV(<<"E", "1", "-", "E", "2">>))
    /\ last.result.k = "ok"
    /\ Contains(last.result.v.v, <<"E", "1", "-", "E", "2">>)

\* C8: the path a Renamer tracks is where its file is, after every newName: a
\* newName(name, keepExtension=True) that succeeds leaves both at the old
\* directory joined with name and the last extension of the old base name
\* (d/m.s.a renamed to T is d/T.a), and one that fails raises the OSError of
\* os.rename and leaves both where they were.
C8_TrackedPathIsActualPath ==
    /\ renamer # None => renamer.filename = disk
    /\ last.call = "newName" =>
        LET slash == RFind(last.old, "/")
            base == SubSeq(last.old, slash + 1, Len(last.old))
            dot == RFind(base, ".")
            ext == IF dot > 1 THEN SubSeq(base, dot, Len(base)) ELSE <<>>
        IN  /\ (last.result.k = "ok" /\ last.keepExtension) =>
                /\ renamer.filename =
                      SubSeq(last.old, 1, slash) \o last.newName \o ext
                /\ (last.old = <<"d", "/", "m", ".", "s", ".", "a">>
                        /\ last.newName = <<"T">>) =>
                      renamer.filename = <<"d", "/", "T", ".", "a">>
            /\ last.result.k = "raise" =>
                /\ last.result = Raise("OSError")
                /\ renamer.filename = last.old

\* C8 witness: d/m.s.a renamed to T with its extension kept, now d/T.a.
C8_Witness ==
    /\ last.call = "newName"
    /\ last.result.k = "ok"
    /\ last.keepExtension
    /\ last.old = <<"d", "/", "m", ".", "s", ".", "a">>
    /\ last.newName = <<"T">>
    /\ disk = <<"d", "/", "T", ".", "a">>

\* C9: under the default configuration a file whose first matching pattern has
\* no seasonnumber group parses into a descriptor with seasonnumber None, and
\* generateFilename on that descriptor returns a string.
C9_SeasonlessFileIsNamed ==
    /\ (Parsed /\ Hits # {} /\ "seasonnumber" \notin DOMAIN WinnerGroups) =>
          (last.result.k = "ok" /\ episode.seasonnumber = None)
    /\ (/\ last.call = "generateFilename"
        /\ Config = defaults
        /\ episode.seasonnumber = None) =>
          (last.result.k = "ok" /\ last.result.v.k = "str")

\* C10: after every loadConfig and useDefaultConfig, failed loads included,
\* every default option is in Config, and the options no file of this model
\* sets (all but episode_patterns) hold their defaults.
C10_DefaultKeysAlwaysPresent ==
    /\ DOMAIN defaults \subseteq DOMAIN Config
    /\ \A key \in DOMAIN defaults \ {"episode_patterns"} : Config[key] = defaults[key]

====
